---- MODULE Spec2Model ----
(***************************************************************************)
(* Presence/session core of the multiplayer WebSocket server: the          *)
(* PlayerManager store (players, activeTeams, lastMoveTime) and the        *)
(* socket event handlers of io.on('connection') that drive it.             *)
(*                                                                         *)
(* JavaScript values of unknown type are tagged records [t, s, n]:         *)
(*   t = "string"    the string s                                          *)
(*   t = "number"    the finite number n when s = "", and NaN, Infinity,   *)
(*                   -Infinity when s names them                           *)
(*   t = "undefined" a missing field or any value of another type          *)
(* Socket ids are the integers 1, 2, ... in the order the transport hands  *)
(* them out (an id is never used again); a Map is a function whose DOMAIN  *)
(* is its key set.  Each handler runs to completion on the event loop and  *)
(* is one action.                                                          *)
(***************************************************************************)
EXTENDS Integers, Sequences, FiniteSets

VARIABLES
  players,        \* PlayerManager.players: socketId -> PlayerWithSocket
  activeTeams,    \* PlayerManager.activeTeams: teamColor -> socketId
  lastMoveTime,   \* PlayerManager.lastMoveTime: socketId -> timestamp
  sockets,        \* io.sockets.sockets: the ids of the connected sockets
  socketData,     \* socket.data.odUserId of each connected socket
  nextSocketId,   \* the id the next connection gets
  now,            \* Date.now()
  event,          \* the inbound event the step just taken handled
  emitted,        \* the events the step just taken sent, in order
  session         \* each socket's place in its lifecycle:
                  \* "Connected", "Joined" or "Disconnected"

vars == <<players, activeTeams, lastMoveTime, sockets, socketData,
          nextSocketId, now, event, emitted, session>>

\* ------------------------------------------------------------------ bounds

NumSockets == 3
MoveSockets == 2
QuestSockets == 2
MaxElapsed == 50
StoreSockets == 2
PositionSockets == 2

\* --------------------------------------------------------------- constants

CANVAS_MAX_X == 2000
CANVAS_MAX_Y == 2000
CANVAS_MIN == 0
MOVE_RATE_LIMIT_MS == 50
NoSocket == 0

\* Date.now() when the server starts listening: any time at least
\* MOVE_RATE_LIMIT_MS after the epoch, time 0
StartTime == 2 * MOVE_RATE_LIMIT_MS

VALID_SHAPES == {"circle", "square", "triangle", "star", "hexagon", "diamond"}
VALID_COLORS == {"#ef4444", "#f97316", "#eab308", "#22c55e", "#3b82f6",
                 "#8b5cf6", "#ec4899", "#06b6d4", "#f59e0b"}

\* ------------------------------------------------------- JavaScript values

Str(v) == [t |-> "string", s |-> v, n |-> 0]
Num(v) == [t |-> "number", s |-> "", n |-> v]
NaN == [t |-> "number", s |-> "NaN", n |-> 0]
Infinity == [t |-> "number", s |-> "Infinity", n |-> 0]
Undefined == [t |-> "undefined", s |-> "", n |-> 0]

\* x >= c and x <= c for a value x of type number and an integer c
NumGe(x, c) ==
  CASE x.s = "" -> x.n >= c
    [] x.s = "Infinity" -> TRUE
    [] OTHER -> FALSE

NumLe(x, c) ==
  CASE x.s = "" -> x.n <= c
    [] x.s = "-Infinity" -> TRUE
    [] OTHER -> FALSE

isNaN(x) == x.s = "NaN"

\* --------------------------------------------------------------- Map helpers

EmptyMap == [k \in {} |-> 0]
MapSet(m, k, v) == [j \in (DOMAIN m) \cup {k} |-> IF j = k THEN v ELSE m[j]]
MapDelete(m, k) == [j \in (DOMAIN m) \ {k} |-> m[j]]

\* ------------------------------------------------------------ PlayerManager

Store == [players |-> players, activeTeams |-> activeTeams,
          lastMoveTime |-> lastMoveTime]

\* mutant: the upper canvas bounds are not checked
isValidPosition_NoUpperBound(x, y) ==
  /\ x.t = "number"
  /\ y.t = "number"
  /\ NumGe(x, CANVAS_MIN)
  /\ NumGe(y, CANVAS_MIN)
  /\ ~isNaN(x)
  /\ ~isNaN(y)

isValidPosition(x, y) ==
  /\ x.t = "number"
  /\ y.t = "number"
  /\ NumGe(x, CANVAS_MIN)
  /\ NumLe(x, CANVAS_MAX_X)
  /\ NumGe(y, CANVAS_MIN)
  /\ NumLe(y, CANVAS_MAX_Y)
  /\ ~isNaN(x)
  /\ ~isNaN(y)

isValidShape(shape) == shape.t = "string" /\ shape.s \in VALID_SHAPES

isValidColor(color) == color.t = "string" /\ color.s \in VALID_COLORS

\* mutant: the team colour is checked before the shape
validatePlayerData_ColorBeforeShape(data) ==
  IF ~data.obj THEN [valid |-> FALSE, error |-> "Invalid data format"]
  ELSE IF data.odUserId.t # "string" \/ data.odUserId.s = ""
    THEN [valid |-> FALSE, error |-> "Invalid userId"]
  ELSE IF data.odUsername.t # "string" \/ data.odUsername.s = ""
    THEN [valid |-> FALSE, error |-> "Invalid username"]
  ELSE IF data.x.t # "number" \/ data.y.t # "number"
    THEN [valid |-> FALSE, error |-> "Invalid position"]
  ELSE IF ~isValidPosition(data.x, data.y)
    THEN [valid |-> FALSE, error |-> "Position out of bounds"]
  ELSE IF ~isValidColor(data.color)
    THEN [valid |-> FALSE, error |-> "Invalid color"]
  ELSE IF ~isValidShape(data.shape)
    THEN [valid |-> FALSE, error |-> "Invalid shape"]
  ELSE [valid |-> TRUE, error |-> ""]

validatePlayerData(data) ==
  IF ~data.obj THEN [valid |-> FALSE, error |-> "Invalid data format"]
  ELSE IF data.odUserId.t # "string" \/ data.odUserId.s = ""
    THEN [valid |-> FALSE, error |-> "Invalid userId"]
  ELSE IF data.odUsername.t # "string" \/ data.odUsername.s = ""
    THEN [valid |-> FALSE, error |-> "Invalid username"]
  ELSE IF data.x.t # "number" \/ data.y.t # "number"
    THEN [valid |-> FALSE, error |-> "Invalid position"]
  ELSE IF ~isValidPosition(data.x, data.y)
    THEN [valid |-> FALSE, error |-> "Position out of bounds"]
  ELSE IF ~isValidShape(data.shape)
    THEN [valid |-> FALSE, error |-> "Invalid shape"]
  ELSE IF ~isValidColor(data.color)
    THEN [valid |-> FALSE, error |-> "Invalid color"]
  ELSE [valid |-> TRUE, error |-> ""]

validateMoveData(data) ==
  IF ~data.obj THEN [valid |-> FALSE, error |-> "Invalid data format"]
  ELSE IF data.odUserId.t # "string"
    THEN [valid |-> FALSE, error |-> "Invalid userId"]
  ELSE IF data.x.t # "number" \/ data.y.t # "number"
    THEN [valid |-> FALSE, error |-> "Invalid position"]
  ELSE IF ~isValidPosition(data.x, data.y)
    THEN [valid |-> FALSE, error |-> "Position out of bounds"]
  ELSE [valid |-> TRUE, error |-> ""]

\* mutant: the team lookup never finds a holder
getActiveTeamSocket_NoHolder(st, teamColor) == NoSocket

getActiveTeamSocket(st, teamColor) ==
  IF teamColor \in DOMAIN st.activeTeams THEN st.activeTeams[teamColor]
  ELSE NoSocket

\* mutant: the player is stored but its team is not tracked as active
addPlayer_NoTeamIndex(st, socketId, data, t) ==
  LET player == [socketId |-> socketId, odUserId |-> data.odUserId,
                 odUsername |-> data.odUsername, x |-> data.x, y |-> data.y,
                 shape |-> data.shape, color |-> data.color,
                 completedQuests |-> << >>, connectedAt |-> t]
  IN [st |-> [st EXCEPT !.players = MapSet(st.players, socketId, player)],
      player |-> player]

\* the new store and the player created
addPlayer(st, socketId, data, t) ==
  LET player == [socketId |-> socketId,
                 odUserId |-> data.odUserId,
                 odUsername |-> data.odUsername,
                 x |-> data.x,
                 y |-> data.y,
                 shape |-> data.shape,
                 color |-> data.color,
                 completedQuests |-> << >>,
                 connectedAt |-> t]
  IN [st |-> [st EXCEPT !.players = MapSet(st.players, socketId, player),
                        !.activeTeams = MapSet(st.activeTeams, data.color.s, socketId)],
      player |-> player]

\* mutant: the player is returned but its record is not deleted
removePlayer_KeepsRecord(st, socketId) ==
  IF socketId \in DOMAIN st.players
  THEN [st |-> st, found |-> TRUE, player |-> <<st.players[socketId]>>]
  ELSE [st |-> st, found |-> FALSE, player |-> << >>]

\* mutant: the team's index entry is deleted whatever socket it points at
removePlayer_NoGuard(st, socketId) ==
  IF socketId \in DOMAIN st.players
  THEN LET player == st.players[socketId]
       IN [st |-> [players |-> MapDelete(st.players, socketId),
                   lastMoveTime |-> MapDelete(st.lastMoveTime, socketId),
                   activeTeams |-> MapDelete(st.activeTeams, player.color.s)],
           found |-> TRUE,
           player |-> <<player>>]
  ELSE [st |-> st, found |-> FALSE, player |-> << >>]

\* the new store, whether a player was found, and that player
removePlayer(st, socketId) ==
  IF socketId \in DOMAIN st.players
  THEN LET player == st.players[socketId]
       IN [st |-> [players |-> MapDelete(st.players, socketId),
                   lastMoveTime |-> MapDelete(st.lastMoveTime, socketId),
                   activeTeams |->
                     IF /\ player.color.s \in DOMAIN st.activeTeams
                        /\ st.activeTeams[player.color.s] = socketId
                     THEN MapDelete(st.activeTeams, player.color.s)
                     ELSE st.activeTeams],
           found |-> TRUE,
           player |-> <<player>>]
  ELSE [st |-> st, found |-> FALSE, player |-> << >>]

\* the Player interface of a stored player (without socketId and connectedAt)
Projection(player) ==
  [odUserId |-> player.odUserId,
   odUsername |-> player.odUsername,
   x |-> player.x,
   y |-> player.y,
   shape |-> player.shape,
   color |-> player.color,
   completedQuests |-> player.completedQuests]

\* the players of the sockets in `ids`, by ascending socket id
RECURSIVE ProjectionsOf(_, _)
ProjectionsOf(st, ids) ==
  IF ids = {} THEN << >>
  ELSE LET least == CHOOSE i \in ids : \A j \in ids : i <= j
       IN <<Projection(st.players[least])>> \o ProjectionsOf(st, ids \ {least})

\* mutant: the excluded socket's own player is listed too
getAllPlayers_IncludesSelf(st, excludeSocketId) ==
  ProjectionsOf(st, DOMAIN st.players)

getAllPlayers(st, excludeSocketId) ==
  ProjectionsOf(st, (DOMAIN st.players) \ {excludeSocketId})

getPlayerCount(st) == Cardinality(DOMAIN st.players)

\* mutant: no rate limit
updatePosition_NoRateLimit(st, socketId, data, t) ==
  IF socketId \notin DOMAIN st.players THEN [st |-> st, ok |-> FALSE]
  ELSE IF ~isValidPosition(data.x, data.y) THEN [st |-> st, ok |-> FALSE]
  ELSE [st |-> [st EXCEPT !.players[socketId].x = data.x,
                          !.players[socketId].y = data.y,
                          !.lastMoveTime = MapSet(st.lastMoveTime, socketId, t)],
        ok |-> TRUE]

\* mutant: a move exactly MOVE_RATE_LIMIT_MS after the last one is refused
updatePosition_OffByOne(st, socketId, data, t) ==
  IF socketId \notin DOMAIN st.players THEN [st |-> st, ok |-> FALSE]
  ELSE LET lastMove == IF socketId \in DOMAIN st.lastMoveTime
                       THEN st.lastMoveTime[socketId] ELSE 0
       IN IF t - lastMove <= MOVE_RATE_LIMIT_MS THEN [st |-> st, ok |-> FALSE]
          ELSE IF ~isValidPosition(data.x, data.y) THEN [st |-> st, ok |-> FALSE]
          ELSE [st |-> [st EXCEPT !.players[socketId].x = data.x,
                                  !.players[socketId].y = data.y,
                                  !.lastMoveTime = MapSet(st.lastMoveTime, socketId, t)],
                ok |-> TRUE]

\* mutant: a rate-limited attempt restarts the window
updatePosition_StampsAttempts(st, socketId, data, t) ==
  IF socketId \notin DOMAIN st.players THEN [st |-> st, ok |-> FALSE]
  ELSE LET lastMove == IF socketId \in DOMAIN st.lastMoveTime
                       THEN st.lastMoveTime[socketId] ELSE 0
           stamped == [st EXCEPT !.lastMoveTime =
                                    MapSet(st.lastMoveTime, socketId, t)]
       IN IF t - lastMove < MOVE_RATE_LIMIT_MS
          THEN [st |-> stamped, ok |-> FALSE]
          ELSE IF ~isValidPosition(data.x, data.y) THEN [st |-> st, ok |-> FALSE]
          ELSE [st |-> [stamped EXCEPT !.players[socketId].x = data.x,
                                       !.players[socketId].y = data.y],
                ok |-> TRUE]

\* the new store and whether the move was applied
updatePosition(st, socketId, data, t) ==
  IF socketId \notin DOMAIN st.players THEN [st |-> st, ok |-> FALSE]
  ELSE LET lastMove == IF socketId \in DOMAIN st.lastMoveTime
                       THEN st.lastMoveTime[socketId] ELSE 0
       IN IF t - lastMove < MOVE_RATE_LIMIT_MS THEN [st |-> st, ok |-> FALSE]
          ELSE IF ~isValidPosition(data.x, data.y) THEN [st |-> st, ok |-> FALSE]
          ELSE [st |-> [st EXCEPT !.players[socketId].x = data.x,
                                  !.players[socketId].y = data.y,
                                  !.lastMoveTime = MapSet(st.lastMoveTime, socketId, t)],
                ok |-> TRUE]

Includes(seq, v) == \E i \in 1..Len(seq) : seq[i] = v

\* mutant: the quest is appended without the includes check
completeQuest_AlwaysAppends(st, socketId, questId) ==
  IF socketId \notin DOMAIN st.players THEN [st |-> st, ok |-> FALSE]
  ELSE [st |-> [st EXCEPT !.players[socketId].completedQuests =
                             Append(@, questId)],
        ok |-> TRUE]

\* mutant: completing a completed quest is reported as a failure
completeQuest_RepeatFails(st, socketId, questId) ==
  IF socketId \notin DOMAIN st.players THEN [st |-> st, ok |-> FALSE]
  ELSE IF ~Includes(st.players[socketId].completedQuests, questId)
    THEN [st |-> [st EXCEPT !.players[socketId].completedQuests =
                               Append(@, questId)],
          ok |-> TRUE]
  ELSE [st |-> st, ok |-> FALSE]

\* the new store and whether the quest was recorded
completeQuest(st, socketId, questId) ==
  IF socketId \notin DOMAIN st.players THEN [st |-> st, ok |-> FALSE]
  ELSE IF ~Includes(st.players[socketId].completedQuests, questId)
    THEN [st |-> [st EXCEPT !.players[socketId].completedQuests =
                               Append(@, questId)],
          ok |-> TRUE]
  ELSE [st |-> st, ok |-> TRUE]

\* --------------------------------------------------------- outbound events

\* one emitted event: its name, the sockets it is sent to, and its payload
Msg(ev, to, userId, list, x, y, questId, text) ==
  [ev |-> ev, to |-> to, userId |-> userId, list |-> list, x |-> x, y |-> y,
   questId |-> questId, text |-> text]

ErrorMsg(to, text) ==
  Msg("error", to, Undefined, << >>, Undefined, Undefined, Undefined, text)
KickedMsg(to) ==
  Msg("kicked", to, Undefined, << >>, Undefined, Undefined, Undefined,
      "Another player from your team has connected")
PlayerLeftMsg(to, userId) ==
  Msg("player:left", to, userId, << >>, Undefined, Undefined, Undefined, "")
PlayersListMsg(to, list) ==
  Msg("players:list", to, Undefined, list, Undefined, Undefined, Undefined, "")
PlayerJoinedMsg(to, player) ==
  Msg("player:joined", to, Undefined, <<Projection(player)>>, Undefined,
      Undefined, Undefined, "")
PlayerMovedMsg(to, userId, x, y) ==
  Msg("player:moved", to, userId, << >>, x, y, Undefined, "")
QuestCompletedMsg(to, userId, questId) ==
  Msg("quest:completed", to, userId, << >>, Undefined, Undefined, questId, "")
PongMsg(to) ==
  Msg("pong", to, Undefined, << >>, Undefined, Undefined, Undefined, "")

\* ----------------------------------------------------------------- handlers

Event(name, socket, data) == [name |-> name, socket |-> socket, data |-> data]

\* mutant: player:left is broadcast whether or not a player was removed
handleDisconnect_AlwaysAnnounces(st, socketId, to) ==
  LET r == removePlayer(st, socketId)
  IN [st |-> r.st,
      out |-> <<PlayerLeftMsg(to, IF r.found THEN r.player[1].odUserId
                                  ELSE Undefined)>>]

\* handleDisconnect(socketId), io.emit reaching the sockets in `to`:
\* the new store and the events sent
handleDisconnect(st, socketId, to) ==
  LET r == removePlayer(st, socketId)
  IN [st |-> r.st,
      out |-> IF r.found THEN <<PlayerLeftMsg(to, r.player[1].odUserId)>>
              ELSE << >>]

\* mutant: the holder's transport is closed before its player is removed
KickExisting_ClosesFirst(st, socks, existingSocketId) ==
  LET closed == handleDisconnect(st, existingSocketId,
                                 socks \ {existingSocketId})
      removed == removePlayer(closed.st, existingSocketId)
      left == IF removed.found
              THEN <<PlayerLeftMsg(socks \ {existingSocketId},
                                   removed.player[1].odUserId)>>
              ELSE << >>
  IN [st |-> removed.st,
      sockets |-> socks \ {existingSocketId},
      out |-> <<KickedMsg({existingSocketId})>> \o closed.out \o left]

\* The eviction block of 'player:join': the holder of the team is kicked,
\* removed, announced as left and its transport closed; closing it runs its
\* own 'disconnect' handler before the join goes on.
KickExisting(st, socks, existingSocketId) ==
  LET removed == removePlayer(st, existingSocketId)
      left == IF removed.found
              THEN <<PlayerLeftMsg(socks, removed.player[1].odUserId)>>
              ELSE << >>
      closed == handleDisconnect(removed.st, existingSocketId,
                                 socks \ {existingSocketId})
  IN [st |-> closed.st,
      sockets |-> socks \ {existingSocketId},
      out |-> <<KickedMsg({existingSocketId})>> \o left \o closed.out]

SetStore(st) ==
  /\ players' = st.players
  /\ activeTeams' = st.activeTeams
  /\ lastMoveTime' = st.lastMoveTime

\* io.on('connection'): a new socket, with empty socket.data
Connection(maxSocketId) ==
  /\ nextSocketId <= maxSocketId
  /\ sockets' = sockets \cup {nextSocketId}
  /\ socketData' = MapSet(socketData, nextSocketId, Undefined)
  /\ nextSocketId' = nextSocketId + 1
  /\ event' = Event("connection", nextSocketId, Undefined)
  /\ emitted' = << >>
  /\ session' = MapSet(session, nextSocketId, "Connected")
  /\ UNCHANGED <<players, activeTeams, lastMoveTime, now>>

\* mutant: the error goes to every socket (io.emit for socket.emit)
JoinRejected_Broadcasts(socket, data) ==
  /\ emitted' = <<ErrorMsg(sockets, validatePlayerData(data).error)>>
  /\ UNCHANGED <<players, activeTeams, lastMoveTime, sockets, socketData,
                 nextSocketId, now, session>>

\* 'player:join' with a payload that fails validation
JoinRejected(socket, data) ==
  /\ emitted' = <<ErrorMsg({socket}, validatePlayerData(data).error)>>
  /\ UNCHANGED <<players, activeTeams, lastMoveTime, sockets, socketData,
                 nextSocketId, now, session>>

\* mutant: the team is claimed before its holder is looked up
JoinAccepted_QueryAfterClaim(socket, data) ==
  LET claimed == addPlayer(Store, socket, data, now)
      existingSocketId == getActiveTeamSocket(claimed.st, data.color.s)
      kick == /\ existingSocketId # NoSocket
              /\ existingSocketId # socket
              /\ existingSocketId \in sockets
      evicted == IF kick
                 THEN KickExisting(claimed.st, sockets, existingSocketId)
                 ELSE [st |-> claimed.st, sockets |-> sockets, out |-> << >>]
      existingPlayers == getAllPlayers(evicted.st, socket)
  IN /\ SetStore(evicted.st)
     /\ sockets' = evicted.sockets
     /\ socketData' = MapSet([s \in evicted.sockets |-> socketData[s]],
                             socket, data.odUserId)
     /\ emitted' = evicted.out
          \o <<PlayersListMsg({socket}, existingPlayers)>>
          \o <<PlayerJoinedMsg(evicted.sockets \ {socket}, claimed.player)>>
     /\ session' = [s \in DOMAIN session |->
                      IF s = socket THEN "Joined"
                      ELSE IF s \in sockets \ evicted.sockets
                      THEN "Disconnected"
                      ELSE session[s]]
     /\ UNCHANGED <<nextSocketId, now>>

\* 'player:join' with a valid payload: kick the holder of the team, add the
\* player, send the list of the others, announce the player to the others
JoinAccepted(socket, data) ==
  LET existingSocketId == getActiveTeamSocket(Store, data.color.s)
      kick == /\ existingSocketId # NoSocket
              /\ existingSocketId # socket
              /\ existingSocketId \in sockets
      evicted == IF kick
                 THEN KickExisting(Store, sockets, existingSocketId)
                 ELSE [st |-> Store, sockets |-> sockets, out |-> << >>]
      added == addPlayer(evicted.st, socket, data, now)
      existingPlayers == getAllPlayers(added.st, socket)
  IN /\ SetStore(added.st)
     /\ sockets' = evicted.sockets
     /\ socketData' = MapSet([s \in evicted.sockets |-> socketData[s]],
                             socket, data.odUserId)
     /\ emitted' = evicted.out
          \o <<PlayersListMsg({socket}, existingPlayers)>>
          \o <<PlayerJoinedMsg(evicted.sockets \ {socket}, added.player)>>
     /\ session' = [s \in DOMAIN session |->
                      IF s = socket THEN "Joined"
                      ELSE IF s \in sockets \ evicted.sockets
                      THEN "Disconnected"
                      ELSE session[s]]
     /\ UNCHANGED <<nextSocketId, now>>

\* socket.on('player:join')
PlayerJoin(socket, data) ==
  /\ socket \in sockets
  /\ event' = Event("player:join", socket, data)
  /\ IF ~validatePlayerData(data).valid
     THEN JoinRejected(socket, data)
     ELSE JoinAccepted(socket, data)

\* mutant: player:moved goes to the sender too (io.emit for broadcast.emit)
PlayerMove_EchoesSender(socket, data) ==
  /\ socket \in sockets
  /\ event' = Event("player:move", socket, data)
  /\ LET validation == validateMoveData(data)
         updated == updatePosition(Store, socket, data, now)
     IN IF ~validation.valid
        THEN /\ emitted' = << >>
             /\ UNCHANGED <<players, activeTeams, lastMoveTime>>
        ELSE /\ SetStore(updated.st)
             /\ emitted' = IF updated.ok
                           THEN <<PlayerMovedMsg(sockets, data.odUserId,
                                                 data.x, data.y)>>
                           ELSE << >>
  /\ UNCHANGED <<sockets, socketData, nextSocketId, now, session>>

\* socket.on('player:move')
PlayerMove(socket, data) ==
  /\ socket \in sockets
  /\ event' = Event("player:move", socket, data)
  /\ LET validation == validateMoveData(data)
         updated == updatePosition(Store, socket, data, now)
     IN IF ~validation.valid
        THEN /\ emitted' = << >>
             /\ UNCHANGED <<players, activeTeams, lastMoveTime>>
        ELSE /\ SetStore(updated.st)
             /\ emitted' = IF updated.ok
                           THEN <<PlayerMovedMsg(sockets \ {socket},
                                                 data.odUserId, data.x, data.y)>>
                           ELSE << >>
  /\ UNCHANGED <<sockets, socketData, nextSocketId, now, session>>

\* socket.on('quest:complete')
QuestComplete(socket, data) ==
  /\ socket \in sockets
  /\ event' = Event("quest:complete", socket, data)
  /\ LET completed == completeQuest(Store, socket, data.odQuestId)
     IN IF ~data.obj
        THEN /\ emitted' = << >>
             /\ UNCHANGED <<players, activeTeams, lastMoveTime>>
        ELSE IF data.odUserId.t # "string" \/ data.odQuestId.t # "string"
        THEN /\ emitted' = << >>
             /\ UNCHANGED <<players, activeTeams, lastMoveTime>>
        ELSE /\ SetStore(completed.st)
             /\ emitted' = IF completed.ok
                           THEN <<QuestCompletedMsg(sockets, data.odUserId,
                                                    data.odQuestId)>>
                           ELSE << >>
  /\ UNCHANGED <<sockets, socketData, nextSocketId, now, session>>

\* socket.on('ping')
Ping(socket) ==
  /\ socket \in sockets
  /\ event' = Event("ping", socket, Undefined)
  /\ emitted' = <<PongMsg({socket})>>
  /\ UNCHANGED <<players, activeTeams, lastMoveTime, sockets, socketData,
                 nextSocketId, now, session>>

\* socket.on('player:disconnect'): the transport stays open
PlayerDisconnect(socket) ==
  /\ socket \in sockets
  /\ event' = Event("player:disconnect", socket, Undefined)
  /\ LET done == handleDisconnect(Store, socket, sockets)
     IN /\ SetStore(done.st)
        /\ emitted' = done.out
  /\ session' = [session EXCEPT ![socket] = "Disconnected"]
  /\ UNCHANGED <<sockets, socketData, nextSocketId, now>>

\* socket.on('disconnect'): the transport closed; the socket has left
\* io.sockets.sockets when the handler runs
Disconnect(socket) ==
  /\ socket \in sockets
  /\ event' = Event("disconnect", socket, Undefined)
  /\ LET done == handleDisconnect(Store, socket, sockets \ {socket})
     IN /\ SetStore(done.st)
        /\ emitted' = done.out
  /\ session' = [session EXCEPT ![socket] = "Disconnected"]
  /\ sockets' = sockets \ {socket}
  /\ socketData' = MapDelete(socketData, socket)
  /\ UNCHANGED <<nextSocketId, now>>

\* time passes between two events
Tick(d) ==
  /\ now + d <= StartTime + MaxElapsed
  /\ now' = now + d
  /\ event' = Event("tick", NoSocket, Undefined)
  /\ emitted' = << >>
  /\ UNCHANGED <<players, activeTeams, lastMoveTime, sockets, socketData,
                 nextSocketId, session>>

\* ------------------------------------------------------------------- inputs

JoinData(userId, username, x, y, shape, color) ==
  [obj |-> TRUE, odUserId |-> userId, odUsername |-> username, x |-> x,
   y |-> y, shape |-> shape, color |-> color]
MoveData(userId, x, y) == [obj |-> TRUE, odUserId |-> userId, x |-> x, y |-> y]
QuestData(userId, questId) ==
  [obj |-> TRUE, odUserId |-> userId, odQuestId |-> questId]

Teams == {"#ef4444", "#f97316"}

ValidJoin(u, c) ==
  JoinData(Str(u), Str("Ann"), Num(10), Num(10), Str("circle"), Str(c))

\* joins of the session specification: user "u1" on either team, user "u2"
\* on the first, and payloads that fail one validation rule each
JoinInputs ==
  {ValidJoin("u1", c) : c \in Teams}
  \cup {ValidJoin("u2", "#ef4444")}
  \cup {[ValidJoin("u1", "#ef4444") EXCEPT !.x = Num(2001)],
        [ValidJoin("u1", "#f97316") EXCEPT !.odUserId = Str("")],
        ValidJoin("u1", "#000000")}

Init ==
  /\ players = EmptyMap
  /\ activeTeams = EmptyMap
  /\ lastMoveTime = EmptyMap
  /\ sockets = {}
  /\ socketData = EmptyMap
  /\ nextSocketId = 1
  /\ now = StartTime
  /\ event = Event("listen", NoSocket, Undefined)
  /\ emitted = << >>
  /\ session = EmptyMap

\* ---------------------------------------------- the session specification
\* Connections, joins (with eviction), explicit disconnects and transport
\* closes of up to NumSockets sockets.

Next ==
  \/ Connection(NumSockets)
  \/ \E socket \in sockets, data \in JoinInputs : PlayerJoin(socket, data)
  \/ \E socket \in sockets : PlayerDisconnect(socket)
  \/ \E socket \in sockets : Disconnect(socket)

Spec == Init /\ [][Next]_vars

\* ------------------------------------------------- the move specification
\* Position updates under the clock: joins in and out of bounds, moves in
\* and out of bounds, and time passing in steps around the rate limit.

MoveJoinInputs ==
  {ValidJoin("u1", "#ef4444"),
   [ValidJoin("u1", "#ef4444") EXCEPT !.x = Num(2001)],
   [ValidJoin("u1", "#ef4444") EXCEPT !.y = Num(-1)],
   [ValidJoin("u1", "#ef4444") EXCEPT !.x = NaN],
   [ValidJoin("u1", "#ef4444") EXCEPT !.y = Infinity],
   [ValidJoin("u1", "#ef4444") EXCEPT !.x = Num(0), !.y = Num(2000)]}

MoveInputs ==
  {MoveData(Str("u1"), Num(0), Num(2000)),
   MoveData(Str("u1"), Num(2000), Num(0)),
   MoveData(Str("u1"), Num(2001), Num(10)),
   MoveData(Str("u1"), Num(10), Num(-1)),
   MoveData(Str("u1"), NaN, Num(10)),
   MoveData(Str("u1"), Num(10), Infinity),
   MoveData(Str("u1"), Str("10"), Num(10)),
   MoveData(Undefined, Num(10), Num(10)),
   [MoveData(Str("u1"), Num(10), Num(10)) EXCEPT !.obj = FALSE]}

TickSteps == {MOVE_RATE_LIMIT_MS \div 2, MOVE_RATE_LIMIT_MS - 1}

NextMove ==
  \/ Connection(MoveSockets)
  \/ \E socket \in sockets, data \in MoveJoinInputs : PlayerJoin(socket, data)
  \/ \E socket \in sockets, data \in MoveInputs : PlayerMove(socket, data)
  \/ \E socket \in sockets : PlayerDisconnect(socket)
  \/ \E socket \in sockets : Disconnect(socket)
  \/ \E d \in TickSteps : Tick(d)

SpecMove == Init /\ [][NextMove]_vars

\* ------------------------------------------------ the quest specification
\* Quest completion within and across joins of the same socket.

QuestJoinInputs == {ValidJoin("u1", c) : c \in Teams}

QuestIds == {"q1", "q2"}

QuestInputs ==
  {QuestData(Str("u1"), Str(q)) : q \in QuestIds}
  \cup {QuestData(Str("u1"), Undefined),
        QuestData(Str(""), Str("q1")),
        [QuestData(Str("u1"), Str("q1")) EXCEPT !.obj = FALSE]}

QuestMoveInputs == {MoveData(Str("u1"), Num(10), Num(10))}

NextQuest ==
  \/ Connection(QuestSockets)
  \/ \E socket \in sockets, data \in QuestJoinInputs : PlayerJoin(socket, data)
  \/ \E socket \in sockets, data \in QuestInputs : QuestComplete(socket, data)
  \/ \E socket \in sockets, data \in QuestMoveInputs : PlayerMove(socket, data)
  \/ \E socket \in sockets : Ping(socket)
  \/ \E socket \in sockets : PlayerDisconnect(socket)
  \/ \E socket \in sockets : Disconnect(socket)

SpecQuest == Init /\ [][NextQuest]_vars

\* ------------------------------------------------ the store specification
\* The PlayerManager on its own: its public methods addPlayer, removePlayer
\* and updatePosition called in any order for the socket ids 1..StoreSockets,
\* without the handlers' eviction.  `event` holds the call just made: the
\* method, the socket id, and the payload (addPlayer, updatePosition) or the
\* result (removePlayer).

StoreJoinInputs == {ValidJoin("u1", c) : c \in Teams}

StoreMoveInputs == {MoveData(Str("u1"), Num(20), Num(20))}

StoreAdd(socketId, data) ==
  /\ SetStore(addPlayer(Store, socketId, data, now).st)
  /\ event' = Event("addPlayer", socketId, data)
  /\ UNCHANGED <<sockets, socketData, nextSocketId, now, emitted, session>>

StoreRemove(socketId) ==
  LET removed == removePlayer(Store, socketId)
  IN /\ SetStore(removed.st)
     /\ event' = Event("removePlayer", socketId,
                       [found |-> removed.found, player |-> removed.player])
     /\ UNCHANGED <<sockets, socketData, nextSocketId, now, emitted, session>>

StoreMove(socketId, data) ==
  /\ SetStore(updatePosition(Store, socketId, data, now).st)
  /\ event' = Event("updatePosition", socketId, data)
  /\ UNCHANGED <<sockets, socketData, nextSocketId, now, emitted, session>>

NextStore ==
  \/ \E socketId \in 1..StoreSockets, data \in StoreJoinInputs :
       StoreAdd(socketId, data)
  \/ \E socketId \in 1..StoreSockets : StoreRemove(socketId)
  \/ \E socketId \in 1..StoreSockets, data \in StoreMoveInputs :
       StoreMove(socketId, data)

SpecStore == Init /\ [][NextStore]_vars

\* --------------------------------------------- the position specification
\* Moves of a socket while another socket has a player on the other team.

PositionJoinInputs == {ValidJoin("u1", c) : c \in Teams}

PositionMoveInputs ==
  {MoveData(Str("u1"), Num(20), Num(30)),
   MoveData(Str("u1"), Num(30), Num(20)),
   MoveData(Str("u1"), Num(20), Num(2001))}

NextPosition ==
  \/ Connection(PositionSockets)
  \/ \E socket \in sockets, data \in PositionJoinInputs :
       PlayerJoin(socket, data)
  \/ \E socket \in sockets, data \in PositionMoveInputs :
       PlayerMove(socket, data)
  \/ \E socket \in sockets : Disconnect(socket)

SpecPosition == Init /\ [][NextPosition]_vars

\* ------------------------------------------- the validation specification
\* validatePlayerData called on join payloads in which every field is in
\* turn well-formed, empty, out of range, of another type or missing.
\* `event` holds the call just made: its payload and its result.

ValidateInputs ==
  {JoinData(u, n, x, y, s, c) :
     u \in {Str("u1"), Str(""), Undefined},
     n \in {Str("Ann"), Str("")},
     x \in {Num(10), Num(0), Num(2000), Num(2001), Num(-1), NaN, Infinity,
            Str("10")},
     y \in {Num(10), Num(-1), Undefined},
     s \in {Str("circle"), Str("oval")},
     c \in {Str("#ef4444"), Str("#000000")}}
  \cup {[ValidJoin("u1", "#ef4444") EXCEPT !.odUsername = Undefined],
        [ValidJoin("u1", "#ef4444") EXCEPT !.shape = Undefined],
        [ValidJoin("u1", "#ef4444") EXCEPT !.color = Undefined],
        [ValidJoin("u1", "#ef4444") EXCEPT !.obj = FALSE]}

ValidateJoin(data) ==
  /\ event' = Event("validatePlayerData", NoSocket,
                    [payload |-> data, result |-> validatePlayerData(data)])
  /\ UNCHANGED <<players, activeTeams, lastMoveTime, sockets, socketData,
                 nextSocketId, now, emitted, session>>

NextValidate == \E data \in ValidateInputs : ValidateJoin(data)

SpecValidate == Init /\ [][NextValidate]_vars

\* ------------------------------------------------------------------- claims

Range(seq) == {seq[i] : i \in 1..Len(seq)}
EventsNamed(ev) == {i \in 1..Len(emitted) : emitted[i].ev = ev}
IsValidJoin == event.name = "player:join" /\ validatePlayerData(event.data).valid
SocketsOnTeam(color) == {s \in DOMAIN players : players[s].color = color}

\* C1: for every team, at most one socket's stored player has that team.
TeamExclusive ==
  \A a \in DOMAIN players, b \in DOMAIN players :
    players[a].color = players[b].color => a = b

\* a join has just evicted the holder of its team while another team is held
TeamExclusiveWitness ==
  /\ IsValidJoin
  /\ EventsNamed("kicked") # {}
  /\ Cardinality(DOMAIN players) >= 2
  /\ Cardinality(SocketsOnTeam(event.data.color)) = 1

\* C2: if socket a holds team T and another socket b sends a valid join for
\* T, then after the join a has no player, player:left with a's stored userId
\* went to all sockets, and b has a player on T which the team index maps to b.
EvictionCorrect ==
  [][\A a \in DOMAIN players :
       ( /\ IsValidJoin'
         /\ event'.socket # a
         /\ players[a].color = event'.data.color )
       => /\ a \notin DOMAIN players'
          /\ PlayerLeftMsg(sockets, players[a].odUserId) \in Range(emitted')
          /\ event'.socket \in DOMAIN players'
          /\ players'[event'.socket].color = event'.data.color
          /\ getActiveTeamSocket(Store', event'.data.color.s) = event'.socket
    ]_vars

\* socket 2 has just joined the team of socket 1, whose player "u1" is gone
EvictionCorrectWitness ==
  /\ IsValidJoin
  /\ event.socket = 2
  /\ KickedMsg({1}) \in Range(emitted)
  /\ PlayerLeftMsg({1, 2, 3}, Str("u1")) \in Range(emitted)
  /\ 1 \notin DOMAIN players
  /\ 2 \in DOMAIN players

\* C3: the stored players are exactly the live sockets that have joined (and
\* have not since disconnected or been evicted), one record each, and the
\* player count is their number.
JoinedSockets == {s \in sockets : session[s] = "Joined"}

Bijection ==
  /\ DOMAIN players = JoinedSockets
  /\ getPlayerCount(Store) = Cardinality(JoinedSockets)
  /\ \A s \in DOMAIN players : players[s].socketId = s

\* one socket joined and was evicted, one joined and left, one is joined
BijectionWitness ==
  /\ Cardinality(JoinedSockets) = 1
  /\ Cardinality({s \in DOMAIN session : session[s] = "Disconnected"}) = 2
  /\ EventsNamed("kicked") # {}

\* C9: a join whose payload fails validation sends one error event to the
\* sender alone and changes neither the player table, the team index, the
\* rate-limit table, the set of connected sockets nor any socket's data.
InvalidJoinInert ==
  [][( /\ event'.name = "player:join"
       /\ ~validatePlayerData(event'.data).valid )
     => /\ emitted' = <<ErrorMsg({event'.socket},
                                 validatePlayerData(event'.data).error)>>
        /\ UNCHANGED <<players, activeTeams, lastMoveTime, sockets, socketData>>
    ]_vars

\* an out-of-range join naming a team that another socket holds was refused
InvalidJoinInertWitness ==
  /\ event.name = "player:join"
  /\ ~validatePlayerData(event.data).valid
  /\ isValidColor(event.data.color)
  /\ \E s \in DOMAIN players :
       /\ s # event.socket
       /\ players[s].color = event.data.color
       /\ getActiveTeamSocket(Store, event.data.color.s) = s
  /\ emitted = <<ErrorMsg({event.socket}, "Position out of bounds")>>

\* C10: of the removal paths of one socket (explicit disconnect, transport
\* close, eviction with its forced close) the one that finds the player
\* removes it and sends exactly one player:left with its userId; one that
\* finds no player changes nothing and sends nothing.
LeftMsgs(seq) == {i \in 1..Len(seq) : seq[i].ev = "player:left"}

RemovalOnce ==
  [][/\ \A s \in sockets :
          event'.name \in {"player:disconnect", "disconnect"} /\ event'.socket = s
          => IF s \in DOMAIN players
             THEN /\ s \notin DOMAIN players'
                  /\ Cardinality(LeftMsgs(emitted')) = 1
                  /\ \E i \in LeftMsgs(emitted') :
                       emitted'[i].userId = players[s].odUserId
             ELSE /\ UNCHANGED <<players, activeTeams, lastMoveTime>>
                  /\ emitted' = << >>
     /\ \A s \in sockets :
          KickedMsg({s}) \in Range(emitted')
          => /\ s \notin DOMAIN players'
             /\ s \notin sockets'
             /\ IF s \in DOMAIN players
                THEN /\ Cardinality(LeftMsgs(emitted')) = 1
                     /\ \E i \in LeftMsgs(emitted') :
                          emitted'[i].userId = players[s].odUserId
                ELSE LeftMsgs(emitted') = {}
     /\ \A s \in (DOMAIN players') \ (DOMAIN players) :
          IsValidJoin' /\ event'.socket = s
    ]_vars

\* an eviction (removal, then the forced close and its disconnect handler)
\* has announced the evicted player once
RemovalOnceWitness ==
  /\ \E s \in DOMAIN session : KickedMsg({s}) \in Range(emitted)
  /\ Cardinality(LeftMsgs(emitted)) = 1

\* a finite number within [0, 2000]
InBounds(v) == v.t = "number" /\ v.s = "" /\ v.n >= 0 /\ v.n <= 2000
WellFormedMove(d) ==
  d.obj /\ d.odUserId.t = "string" /\ InBounds(d.x) /\ InBounds(d.y)

\* C4: every stored player has 0 <= x <= 2000 and 0 <= y <= 2000.
BoundsInvariant ==
  \A s \in DOMAIN players : InBounds(players[s].x) /\ InBounds(players[s].y)

\* a player moved onto the canvas edge has just tried to move beyond it
BoundsInvariantWitness ==
  /\ event.name = "player:move"
  /\ event.data.x = Num(2001)
  /\ event.socket \in DOMAIN players
  /\ players[event.socket].x = Num(2000)
  /\ event.socket \in DOMAIN lastMoveTime

\* C5: a move that is out of range, or from a socket with no player, or
\* within 50 ms of the socket's last accepted move, leaves the player table
\* and the last-accepted timestamps unchanged and sends neither player:moved
\* nor error.
RejectedMovesInert ==
  [][( /\ event'.name = "player:move"
       /\ \/ ~InBounds(event'.data.x)
          \/ ~InBounds(event'.data.y)
          \/ event'.socket \notin DOMAIN players
          \/ /\ event'.socket \in DOMAIN lastMoveTime
             /\ now - lastMoveTime[event'.socket] < 50 )
     => /\ UNCHANGED <<players, lastMoveTime>>
        /\ \A i \in 1..Len(emitted') :
             emitted'[i].ev \notin {"player:moved", "error"}
    ]_vars

\* a socket whose player has never moved has just sent an out-of-range move
RejectedMovesInertWitness ==
  /\ event.name = "player:move"
  /\ event.data.obj
  /\ event.data.y = Num(-1)
  /\ event.socket \in DOMAIN players
  /\ event.socket \notin DOMAIN lastMoveTime
  /\ emitted = << >>

\* C6: a well-formed in-bounds move of a socket with a player is not applied
\* when it comes less than 50 ms after the socket's last applied move, and is
\* applied when it comes 50 ms or more after it, or when no move of the
\* socket was applied before.
MoveApplied(s, d) ==
  /\ players'[s].x = d.x
  /\ players'[s].y = d.y
  /\ lastMoveTime' = MapSet(lastMoveTime, s, now)
  /\ \E i \in 1..Len(emitted') : emitted'[i].ev = "player:moved"

RateLimit ==
  [][( /\ event'.name = "player:move"
       /\ WellFormedMove(event'.data)
       /\ event'.socket \in DOMAIN players )
     => IF /\ event'.socket \in DOMAIN lastMoveTime
           /\ now - lastMoveTime[event'.socket] < 50
        THEN UNCHANGED <<players, lastMoveTime>> /\ emitted' = << >>
        ELSE MoveApplied(event'.socket, event'.data)
    ]_vars

\* 49 ms after its applied move, a socket's move elsewhere was not applied
RateLimitWitness ==
  /\ event.name = "player:move"
  /\ WellFormedMove(event.data)
  /\ event.socket \in DOMAIN players
  /\ event.socket \in DOMAIN lastMoveTime
  /\ now - lastMoveTime[event.socket] = 49
  /\ players[event.socket].x # event.data.x
  /\ emitted = << >>

\* C7: a quest event of a socket with a player is reported as completed and
\* adds the quest id to completedQuests as to a set: no quest id ever occurs
\* twice, and completing a completed quest leaves completedQuests as it is.
NoDuplicateQuests ==
  \A s \in DOMAIN players :
    \A i, j \in 1..Len(players[s].completedQuests) :
      players[s].completedQuests[i] = players[s].completedQuests[j] => i = j

WellFormedQuest(d) ==
  d.obj /\ d.odUserId.t = "string" /\ d.odQuestId.t = "string"

QuestIdempotent ==
  /\ []NoDuplicateQuests
  /\ [][( /\ event'.name = "quest:complete"
          /\ WellFormedQuest(event'.data)
          /\ event'.socket \in DOMAIN players )
        => LET s == event'.socket
               q == event'.data.odQuestId
           IN /\ Range(players'[s].completedQuests)
                   = Range(players[s].completedQuests) \cup {q}
              /\ Includes(players[s].completedQuests, q)
                   => UNCHANGED <<players, activeTeams, lastMoveTime>>
              /\ emitted' = <<QuestCompletedMsg(sockets, event'.data.odUserId, q)>>
       ]_vars

\* "q1" was completed again after "q2" and is still recorded once, first
QuestIdempotentWitness ==
  /\ event.name = "quest:complete"
  /\ event.data = QuestData(Str("u1"), Str("q1"))
  /\ event.socket \in DOMAIN players
  /\ players[event.socket].completedQuests = <<Str("q1"), Str("q2")>>
  /\ Len(emitted) = 1

\* C8: while a socket keeps its player (it is neither disconnected nor
\* evicted), no step removes an element from its completedQuests.
QuestsMonotone ==
  [][\A s \in (DOMAIN players) \cap (DOMAIN players') :
       Range(players[s].completedQuests) \subseteq Range(players'[s].completedQuests)
    ]_vars

\* C11: every entry T -> c of the team index names a socket c that has a
\* stored player whose team is T.
TeamIndexConsistent ==
  \A color \in DOMAIN activeTeams :
    /\ activeTeams[color] \in DOMAIN players
    /\ players[activeTeams[color]].color = Str(color)

\* C12: a valid join sends players:list once, to the joiner alone, holding
\* exactly the stored players of all other sockets, and after it sends
\* player:joined with the new player's projection to every other connected
\* socket and not to the joiner.
JoinAnnounced ==
  [][IsValidJoin' =>
       LET s == event'.socket
           lists == {i \in 1..Len(emitted') : emitted'[i].ev = "players:list"}
           joins == {i \in 1..Len(emitted') : emitted'[i].ev = "player:joined"}
       IN /\ Cardinality(lists) = 1
          /\ Cardinality(joins) = 1
          /\ \A i \in lists :
               /\ emitted'[i].to = {s}
               /\ Range(emitted'[i].list)
                    = {Projection(players'[o]) : o \in (DOMAIN players') \ {s}}
               /\ Len(emitted'[i].list) = Cardinality((DOMAIN players') \ {s})
               /\ \A j \in joins : i < j
          /\ \A j \in joins :
               /\ emitted'[j].to = sockets' \ {s}
               /\ emitted'[j].list = <<Projection(players'[s])>>
    ]_vars

\* socket 2 joined a free team while socket 1 plays and socket 3 watches
JoinAnnouncedWitness ==
  /\ IsValidJoin
  /\ event.socket = 2
  /\ DOMAIN players = {1, 2}
  /\ emitted = <<PlayersListMsg({2}, <<Projection(players[1])>>),
                 PlayerJoinedMsg({1, 3}, players[2])>>

\* C13: when a valid join finds its team held by another socket a, the events
\* sent are, in this order: kicked to a; player:left with a's userId to all
\* sockets, a among them (its transport is still open); players:list to the
\* joiner, without a's player; player:joined to the others, a no longer
\* among them (its transport is closed).  After the step a has no player.
EvictionOrder ==
  [][\A a \in DOMAIN players :
       ( /\ IsValidJoin'
         /\ event'.socket # a
         /\ players[a].color = event'.data.color )
       => /\ Len(emitted') = 4
          /\ emitted'[1] = KickedMsg({a})
          /\ emitted'[2] = PlayerLeftMsg(sockets, players[a].odUserId)
          /\ a \in emitted'[2].to
          /\ emitted'[3].ev = "players:list"
          /\ emitted'[3].to = {event'.socket}
          /\ Projection(players[a]) \notin Range(emitted'[3].list)
          /\ \A i \in 1..Len(emitted'[3].list) :
               emitted'[3].list[i].color # players[a].color
          /\ emitted'[4].ev = "player:joined"
          /\ a \notin emitted'[4].to
          /\ a \notin sockets'
          /\ a \notin DOMAIN players'
    ]_vars

\* socket 3 took the team of socket 1 while socket 2 plays the other team:
\* the list sent to socket 3 holds the player of socket 2 alone
EvictionOrderWitness ==
  /\ IsValidJoin
  /\ event.socket = 3
  /\ DOMAIN players = {2, 3}
  /\ Len(emitted) = 4
  /\ emitted[1] = KickedMsg({1})
  /\ emitted[2].ev = "player:left" /\ emitted[2].to = {1, 2, 3}
  /\ emitted[3] = PlayersListMsg({3}, <<Projection(players[2])>>)
  /\ emitted[4] = PlayerJoinedMsg({2}, players[3])

\* C14: the handler of one join runs as one step.  When socket a has joined
\* team T and socket b then sends a valid join for T, the query b's handler
\* makes before it claims the team returns a (it never sees 'no holder'),
\* and once b's join is processed b alone has a stored player on T.
JoinAtomic ==
  [][\A a \in sockets :
       ( /\ IsValidJoin'
         /\ event'.socket # a
         /\ session[a] = "Joined"
         /\ a \in DOMAIN players
         /\ players[a].color = event'.data.color )
       => /\ getActiveTeamSocket(Store, event'.data.color.s) = a
          /\ KickedMsg({a}) \in Range(emitted')
          /\ {s \in DOMAIN players' : players'[s].color = event'.data.color}
               = {event'.socket}
    ]_vars

\* socket 2 joined a team first and socket 1, connected before it, joined
\* the same team afterwards: socket 1 alone plays it
JoinAtomicWitness ==
  /\ IsValidJoin
  /\ event.socket = 1
  /\ KickedMsg({2}) \in Range(emitted)
  /\ SocketsOnTeam(event.data.color) = {1}
  /\ session[2] = "Disconnected"

\* C15: once a socket has processed 'player:disconnect' or 'disconnect', no
\* later event of that socket changes the player table, the team index or
\* the rate-limit table, and the socket stays Disconnected.
DisconnectedTerminal ==
  [][\A s \in DOMAIN session :
       (session[s] = "Disconnected" /\ event'.socket = s)
       => /\ UNCHANGED <<players, activeTeams, lastMoveTime>>
          /\ session'[s] = "Disconnected"
    ]_vars

\* C16: the last-accepted timestamp of a socket is written by its accepted
\* moves alone: an accepted move sets it to the time of the move, a rejected
\* move (rate limited, out of bounds or malformed) leaves every timestamp as
\* it is, and no other event changes a timestamp it keeps.  An in-bounds
\* move of a socket with a player is accepted exactly when the socket has no
\* timestamp or at least 50 ms have passed since it.
MoveAccepted == \E i \in 1..Len(emitted) : emitted[i].ev = "player:moved"

WindowFromAccepted ==
  [][/\ event'.name = "player:move" =>
          LET s == event'.socket
          IN /\ MoveAccepted' => lastMoveTime' = MapSet(lastMoveTime, s, now)
             /\ ~MoveAccepted' => UNCHANGED lastMoveTime
             /\ (WellFormedMove(event'.data) /\ s \in DOMAIN players)
                  => (MoveAccepted' <=> \/ s \notin DOMAIN lastMoveTime
                                        \/ now - lastMoveTime[s] >= 50)
     /\ event'.name # "player:move" =>
          /\ DOMAIN lastMoveTime' \subseteq DOMAIN lastMoveTime
          /\ \A s \in DOMAIN lastMoveTime' : lastMoveTime'[s] = lastMoveTime[s]
    ]_vars

\* 50 ms after its accepted move a socket's out-of-bounds move was rejected;
\* its timestamp is still that of the accepted move
WindowFromAcceptedWitness ==
  /\ event.name = "player:move"
  /\ event.data.x = Num(2001)
  /\ event.socket \in DOMAIN lastMoveTime
  /\ now - lastMoveTime[event.socket] = MOVE_RATE_LIMIT_MS
  /\ emitted = << >>

\* C17: removePlayer(c) deletes the index entry of the team of c's player
\* when that entry points at c and no entry otherwise: an entry that points
\* at another socket is kept as it is, and so are the player record and the
\* rate-limit entry of every other socket.
RemoveGuard ==
  [][event'.name = "removePlayer" =>
       LET c == event'.socket
       IN /\ \A T \in DOMAIN activeTeams :
               IF /\ c \in DOMAIN players
                  /\ players[c].color = Str(T)
                  /\ activeTeams[T] = c
               THEN T \notin DOMAIN activeTeams'
               ELSE T \in DOMAIN activeTeams' /\ activeTeams'[T] = activeTeams[T]
          /\ DOMAIN activeTeams' \subseteq DOMAIN activeTeams
          /\ DOMAIN players' = (DOMAIN players) \ {c}
          /\ \A o \in DOMAIN players' : players'[o] = players[o]
          /\ DOMAIN lastMoveTime' = (DOMAIN lastMoveTime) \ {c}
          /\ \A o \in DOMAIN lastMoveTime' : lastMoveTime'[o] = lastMoveTime[o]
    ]_vars

\* socket 1 was removed after socket 2 had claimed its team: the team's
\* entry still points at socket 2, whose record and timestamp are in place
RemoveGuardWitness ==
  /\ event.name = "removePlayer"
  /\ event.socket = 1
  /\ event.data.found
  /\ 2 \in DOMAIN players
  /\ 2 \in DOMAIN lastMoveTime
  /\ event.data.player[1].color = players[2].color
  /\ getActiveTeamSocket(Store, players[2].color.s) = 2

\* C18: join validation checks, in this order, that userId is a non-empty
\* string, username is a non-empty string, x and y are finite numbers within
\* [0, 2000], shape is one of the shapes and team one of the team colours;
\* it reports the first of these rules that fails and accepts the payload
\* exactly when all five hold.
NonEmptyString(v) == v.t = "string" /\ v.s # ""

FirstFailingRule(d) ==
  IF ~NonEmptyString(d.odUserId) THEN "userId"
  ELSE IF ~NonEmptyString(d.odUsername) THEN "username"
  ELSE IF ~(InBounds(d.x) /\ InBounds(d.y)) THEN "position"
  ELSE IF ~(d.shape.t = "string" /\ d.shape.s \in VALID_SHAPES) THEN "shape"
  ELSE IF ~(d.color.t = "string" /\ d.color.s \in VALID_COLORS) THEN "team"
  ELSE "none"

RuleReported(error) ==
  CASE error = "Invalid userId" -> "userId"
    [] error = "Invalid username" -> "username"
    [] error \in {"Invalid position", "Position out of bounds"} -> "position"
    [] error = "Invalid shape" -> "shape"
    [] error = "Invalid color" -> "team"
    [] error = "" -> "none"
    [] OTHER -> "format"

ValidationOrder ==
  event.name = "validatePlayerData" =>
    LET d == event.data.payload
        r == event.data.result
    IN /\ r.valid <=> (d.obj /\ FirstFailingRule(d) = "none")
       /\ d.obj => RuleReported(r.error) = FirstFailingRule(d)
       /\ r.valid <=> r.error = ""

\* a payload whose position, shape and team are all wrong was refused for
\* its position
ValidationOrderWitness ==
  /\ event.name = "validatePlayerData"
  /\ event.data.payload.x = Infinity
  /\ event.data.payload.shape = Str("oval")
  /\ event.data.payload.color = Str("#000000")
  /\ event.data.result = [valid |-> FALSE, error |-> "Position out of bounds"]

\* C19: a quest event whose userId or questId is not a non-empty string is
\* ignored: no player's completedQuests changes and no quest:completed is
\* sent.
MalformedQuestIgnored ==
  [][( /\ event'.name = "quest:complete"
       /\ ~( /\ event'.data.obj
             /\ NonEmptyString(event'.data.odUserId)
             /\ NonEmptyString(event'.data.odQuestId) ) )
     => /\ UNCHANGED players
        /\ \A i \in 1..Len(emitted') : emitted'[i].ev # "quest:completed"
    ]_vars

\* C20: a quest event with non-empty string userId and questId from a socket
\* with a stored player, a repeated questId included, sends exactly one
\* quest:completed with that userId and questId to all connected sockets,
\* the sender among them; a quest event from a socket with no player changes
\* nothing and sends nothing.
QuestBroadcast ==
  [][event'.name = "quest:complete" =>
       LET s == event'.socket
           d == event'.data
       IN IF s \in DOMAIN players
          THEN (d.obj /\ NonEmptyString(d.odUserId) /\ NonEmptyString(d.odQuestId))
               => /\ Len(emitted') = 1
                  /\ emitted'[1].ev = "quest:completed"
                  /\ emitted'[1].to = sockets
                  /\ s \in emitted'[1].to
                  /\ emitted'[1].userId = d.odUserId
                  /\ emitted'[1].questId = d.odQuestId
          ELSE /\ UNCHANGED <<players, activeTeams, lastMoveTime>>
               /\ emitted' = << >>
    ]_vars

\* "q2", already completed before "q1", was completed again by one of two
\* connected sockets and broadcast to both
QuestBroadcastWitness ==
  /\ event.name = "quest:complete"
  /\ event.data = QuestData(Str("u1"), Str("q2"))
  /\ sockets = {1, 2}
  /\ event.socket \in DOMAIN players
  /\ players[event.socket].completedQuests = <<Str("q2"), Str("q1")>>
  /\ emitted = <<QuestCompletedMsg({1, 2}, Str("u1"), Str("q2"))>>

\* C21: when a move is accepted (a well-formed in-bounds move of a socket
\* with a player, outside its rate-limit window), the sender's stored x and y
\* become those of the event, the rest of its record and every other
\* socket's record stay as they are, and one player:moved with that x and y
\* is sent to every other connected socket and not to the sender.
MoveIsAccepted(s, d) ==
  /\ WellFormedMove(d)
  /\ s \in DOMAIN players
  /\ s \in DOMAIN lastMoveTime => now - lastMoveTime[s] >= 50

AcceptedMove ==
  [][( /\ event'.name = "player:move"
       /\ MoveIsAccepted(event'.socket, event'.data) )
     => LET s == event'.socket
            d == event'.data
        IN /\ players' = [players EXCEPT ![s].x = d.x, ![s].y = d.y]
           /\ Len(emitted') = 1
           /\ emitted'[1].ev = "player:moved"
           /\ emitted'[1].x = d.x
           /\ emitted'[1].y = d.y
           /\ emitted'[1].to = sockets \ {s}
           /\ s \notin emitted'[1].to
    ]_vars

\* socket 1 moved to (20, 30) while socket 2 plays at (10, 10): socket 2
\* alone was told
AcceptedMoveWitness ==
  /\ event.name = "player:move"
  /\ event.socket = 1
  /\ DOMAIN players = {1, 2}
  /\ players[1].x = Num(20) /\ players[1].y = Num(30)
  /\ players[2].x = Num(10) /\ players[2].y = Num(10)
  /\ emitted = <<PlayerMovedMsg({2}, Str("u1"), Num(20), Num(30))>>

\* C22: a socket is sent kicked (and with it removed and closed) only by a
\* valid join of another socket for the team its stored player has.
EvictionOnlySameTeam ==
  [][\A a \in sockets :
       KickedMsg({a}) \in Range(emitted')
       => /\ IsValidJoin'
          /\ event'.socket # a
          /\ a \in DOMAIN players
          /\ players[a].color = event'.data.color
    ]_vars

\* C23: a player record never disappears from the player table, and is never
\* replaced by a new record, in a step that does not send player:left with
\* the userId of that record.
RecordReplaced(s) ==
  /\ s \in DOMAIN players'
  /\ IsValidJoin'
  /\ event'.socket = s

LeftAnnounced ==
  [][\A s \in DOMAIN players :
       (s \notin DOMAIN players' \/ RecordReplaced(s))
       => \E i \in 1..Len(emitted') :
            /\ emitted'[i].ev = "player:left"
            /\ emitted'[i].userId = players[s].odUserId
    ]_vars

====
